---------------------------- MODULE Spec2Model ----------------------------
(***************************************************************************)
(* Model of the /sync pipeline of the SmartStock Analytics API             *)
(* (src/main.py, sync_local_csv): one pass over the rows of the local CSV  *)
(* fills three accumulators, then the three MongoDB collections            *)
(* ventas_aggregadas, alertas_stock and estacionalidad are emptied with    *)
(* delete_many and refilled with one insert_one per accumulator key.       *)
(* Any exception is caught by the handler and answered with status 500.    *)
(*                                                                         *)
(* Python dicts keep insertion order, so a dict is modelled as a sequence  *)
(* of <<key, value>> pairs with unique keys; a collection is the sequence  *)
(* of its documents in insertion order.  Python integers are unbounded, so *)
(* quantities are plain integers.                                          *)
(***************************************************************************)
EXTENDS Integers, Sequences, FiniteSets, TLC

\* ------------------------------------------------------------------ bounds
MaxLen == 2          \* rows in the CSV file
NumWorkers == 2      \* threads of the server's pool that may serve POST /sync
MaxRequests == 2     \* POST /sync requests received

\* ------------------------------------------------------- program constants
CRITICO_BELOW == 10
BAJO_BELOW == 50

Workers == 1..NumWorkers

\* ------------------------------------------------------------- input rows
Productos == {1, 2}
Cantidades == {9, 10, 40}

\* A text timestamp is kept as its fields, its separator, its time part and
\* whether its numbers are zero-padded, so that parsing is a real check:
\* "2024-01-15 00:00:00" is Txt(2024, "-", 1, 15, "00:00:00", TRUE),
\* "2024-2-1 0:0:0" is Txt(2024, "-", 2, 1, "0:0:0", FALSE) and
\* "2024/01/01" is Txt(2024, "/", 1, 1, "", TRUE).
Txt(y, s, m, d, t, pad) ==
  [isstr |-> TRUE, year |-> y, sep |-> s, month |-> m, day |-> d, time |-> t,
   padded |-> pad]

\* An empty cell is read by pandas as the float NaN, which is not a str.
NaN == [isstr |-> FALSE, year |-> 0, sep |-> "", month |-> 0, day |-> 0, time |-> "",
        padded |-> FALSE]

Jan23 == Txt(2023, "-", 1, 15, "00:00:00", TRUE)
Jan24 == Txt(2024, "-", 1, 15, "00:00:00", TRUE)
Feb24 == Txt(2024, "-", 2, 1, "00:00:00", TRUE)
Unpadded24 == Txt(2024, "-", 2, 1, "0:0:0", FALSE)
Slash24 == Txt(2024, "/", 1, 1, "", TRUE)

Row(p, t, c, f) == [producto_id |-> p, tipo |-> t, cantidad |-> c, fecha |-> f]

\* For each product: inbound rows of every quantity and one with a malformed
\* date, outbound rows in January of two years and in February, with an
\* unpadded date, with a malformed date and with an empty date cell, and a
\* row of an unknown type.
Rows ==
  {Row(p, "entrada", c, Jan24) : p \in Productos, c \in Cantidades}
  \cup
  UNION {{Row(p, "entrada", 10, Slash24),
          Row(p, "salida", 9, Jan23),
          Row(p, "salida", 10, Jan24),
          Row(p, "salida", 40, Feb24),
          Row(p, "salida", 10, Unpadded24),
          Row(p, "salida", 10, Slash24),
          Row(p, "salida", 10, NaN),
          Row(p, "ajuste", 10, Jan24)} : p \in Productos}

SeqsUpTo(S, n) == UNION {[1..k -> S] : k \in 0..n}

Batches == SeqsUpTo(Rows, MaxLen)

\* ------------------------------------------------------- dicts as sequences
RECURSIVE dict_index(_, _)
dict_index(d, k) ==
  IF d = << >> THEN 0
  ELSE IF d[Len(d)][1] = k THEN Len(d)
  ELSE dict_index(SubSeq(d, 1, Len(d) - 1), k)

dict_has(d, k) == dict_index(d, k) # 0

dict_get(d, k, default) ==
  IF dict_has(d, k) THEN d[dict_index(d, k)][2] ELSE default

dict_set(d, k, v) ==
  IF dict_has(d, k) THEN [d EXCEPT ![dict_index(d, k)] = <<k, v>>]
  ELSE Append(d, <<k, v>>)

dict_add_overwrite(d, k, v) == dict_set(d, k, v)

\* defaultdict(int): d[k] += v
dict_add(d, k, v) == dict_set(d, k, dict_get(d, k, 0) + v)

\* ------------------------------------------------------------ timestamps
IsLeap(y) == (y % 4 = 0 /\ y % 100 # 0) \/ y % 400 = 0

DaysIn(y, m) ==
  IF m = 2 THEN (IF IsLeap(y) THEN 29 ELSE 28)
  ELSE IF m \in {4, 6, 9, 11} THEN 30 ELSE 31

strptime_lenient(fecha) ==
  IF fecha.month \in 1..12 /\ fecha.day \in 1..DaysIn(fecha.year, fecha.month)
  THEN [ok |-> TRUE, year |-> fecha.year, month |-> fecha.month, day |-> fecha.day]
  ELSE [ok |-> FALSE, year |-> 0, month |-> 0, day |-> 0]

\* datetime.strptime(fecha, "%Y-%m-%d %H:%M:%S"): ok = FALSE stands for the
\* ValueError raised when the text does not match the format.  The month,
\* day, hour, minute and second directives take one or two digits, so an
\* unpadded text is accepted; a time part, when there is one, is H:M:S.
strptime(fecha) ==
  IF /\ fecha.sep = "-"
     /\ fecha.time # ""
     /\ fecha.month \in 1..12
     /\ fecha.day \in 1..DaysIn(fecha.year, fecha.month)
  THEN [ok |-> TRUE, year |-> fecha.year, month |-> fecha.month, day |-> fecha.day]
  ELSE [ok |-> FALSE, year |-> 0, month |-> 0, day |-> 0]

\* fecha.strftime("%B").lower(): the month's name, the year is dropped.
MonthNames ==
  <<"january", "february", "march", "april", "may", "june",
    "july", "august", "september", "october", "november", "december">>

strftime_B_lower(dt) == MonthNames[dt.month]

\* ------------------------------------------------------------- one pass
EmptyAcc == [raised |-> FALSE, ventas_totales |-> << >>,
             stock_actual |-> << >>, ventas_por_mes |-> << >>]

Raised == [EmptyAcc EXCEPT !.raised = TRUE]

add_mes_january(vpm, producto_id, mes, cantidad) ==
  dict_set(vpm, producto_id,
           dict_add(dict_get(vpm, producto_id, << >>), "january", cantidad))

\* ventas_por_mes[producto_id][mes] += cantidad on the nested defaultdict
add_mes(vpm, producto_id, mes, cantidad) ==
  dict_set(vpm, producto_id,
           dict_add(dict_get(vpm, producto_id, << >>), mes, cantidad))

Max0(n) == IF n < 0 THEN 0 ELSE n

ApplyRow_clamped(acc, row) ==
  IF row.tipo = "entrada" THEN
    [acc EXCEPT !.stock_actual = dict_add(@, row.producto_id, row.cantidad)]
  ELSE IF row.tipo = "salida" THEN
    IF (row.fecha.isstr /\ ~strptime(row.fecha).ok) \/ ~row.fecha.isstr THEN Raised
    ELSE
      [acc EXCEPT
         !.stock_actual = dict_set(@, row.producto_id,
                            Max0(dict_get(@, row.producto_id, 0) - row.cantidad)),
         !.ventas_totales = dict_add(@, row.producto_id, row.cantidad),
         !.ventas_por_mes = add_mes(@, row.producto_id,
                              strftime_B_lower(strptime(row.fecha)), row.cantidad)]
  ELSE acc

ApplyRow_touch(acc, row) ==
  IF row.tipo = "entrada" THEN
    [acc EXCEPT !.stock_actual = dict_add(@, row.producto_id, row.cantidad),
                !.ventas_totales = dict_add(@, row.producto_id, 0)]
  ELSE IF row.tipo = "salida" THEN
    IF (row.fecha.isstr /\ ~strptime(row.fecha).ok) \/ ~row.fecha.isstr THEN Raised
    ELSE
      [acc EXCEPT
         !.stock_actual = dict_add(@, row.producto_id, 0 - row.cantidad),
         !.ventas_totales = dict_add(@, row.producto_id, row.cantidad),
         !.ventas_por_mes = add_mes(@, row.producto_id,
                              strftime_B_lower(strptime(row.fecha)), row.cantidad)]
  ELSE acc

\* The body of the loop over df.iterrows().  A row whose tipo is neither
\* 'entrada' nor 'salida' matches no branch and changes nothing.  For a
\* 'salida' row the stock and the total are updated first, then a str fecha
\* is parsed (ValueError when malformed) and a fecha that is not a str (NaN)
\* has no strftime (AttributeError); either exception leaves the loop.
ApplyRow(acc, row) ==
  IF row.tipo = "entrada" THEN
    [acc EXCEPT !.stock_actual = dict_add(@, row.producto_id, row.cantidad)]
  ELSE IF row.tipo = "salida" THEN
    IF (row.fecha.isstr /\ ~strptime(row.fecha).ok) \/ ~row.fecha.isstr THEN Raised
    ELSE
      [acc EXCEPT
         !.stock_actual = dict_add(@, row.producto_id, 0 - row.cantidad),
         !.ventas_totales = dict_add(@, row.producto_id, row.cantidad),
         !.ventas_por_mes = add_mes(@, row.producto_id,
                              strftime_B_lower(strptime(row.fecha)), row.cantidad)]
  ELSE acc

\* The whole loop: rows in file order, stopping at the first exception.
RECURSIVE Aggregate(_)
Aggregate(df) ==
  IF df = << >> THEN EmptyAcc
  ELSE LET before == Aggregate(SubSeq(df, 1, Len(df) - 1))
       IN IF before.raised THEN Raised ELSE ApplyRow(before, df[Len(df)])

\* ------------------------------------------------------------ documents
\* nombre_producto is the f-string "Producto {producto_id}"; the name read
\* from the row with row.get is never used.  int() of an integer is itself.
\* The estado of the source is spelled with an accented I; here it is CRITICO.
Nombre(producto_id) == <<"Producto", producto_id>>

Estado_inclusive(stock) ==
  IF stock <= CRITICO_BELOW THEN "CRITICO"
  ELSE IF stock <= BAJO_BELOW THEN "BAJO" ELSE "NORMAL"

Estado(stock) ==
  IF stock < CRITICO_BELOW THEN "CRITICO"
  ELSE IF stock < BAJO_BELOW THEN "BAJO" ELSE "NORMAL"

VentaDoc(item) ==
  [producto_id |-> item[1], nombre_producto |-> Nombre(item[1]),
   total_ventas |-> item[2]]

AlertaDoc(item) ==
  [producto_id |-> item[1], nombre_producto |-> Nombre(item[1]),
   stock_actual |-> item[2], estado |-> Estado(item[2])]

EstacionalidadDoc(item) ==
  [producto_id |-> item[1], nombre_producto |-> Nombre(item[1]),
   ventas_por_mes |-> item[2]]

delete_many_noop(coll) == coll

\* collection.delete_many({})
delete_many(coll) == << >>

\* collection.insert_one(doc)
insert_one(coll, doc) == Append(coll, doc)

\* What the three insert loops write into emptied collections.
Materialize(acc) ==
  [ventas_aggregadas |-> [i \in 1..Len(acc.ventas_totales) |-> VentaDoc(acc.ventas_totales[i])],
   alertas_stock |-> [i \in 1..Len(acc.stock_actual) |-> AlertaDoc(acc.stock_actual[i])],
   estacionalidad |-> [i \in 1..Len(acc.ventas_por_mes) |-> EstacionalidadDoc(acc.ventas_por_mes[i])]]

EmptyDb == [ventas_aggregadas |-> << >>, alertas_stock |-> << >>, estacionalidad |-> << >>]

\* A database left by an earlier synchronisation of another file.
LegacyCsv ==
  <<Row(3, "entrada", 40, Txt(2022, "-", 3, 1, "00:00:00", TRUE)),
    Row(3, "salida", 10, Txt(2022, "-", 3, 2, "00:00:00", TRUE))>>

PriorDbs == {EmptyDb, Materialize(Aggregate(LegacyCsv))}

\* ------------------------------------------------------------------ state
VARIABLES
  csv,                \* rows of ./movimiento_inventario.csv, in file order
  ventas_aggregadas,  \* db.ventas_aggregadas
  alertas_stock,      \* db.alertas_stock
  estacionalidad,     \* db.estacionalidad
  pc,                 \* pc[w]: where worker w stands in sync_local_csv
  acc,                \* acc[w]: the three accumulators of worker w's run
  idx,                \* idx[w]: next item of the insert loop worker w is in
  response,           \* response[w]: "none" | "ok" (200) | "error" (500)
  served,             \* POST /sync requests received so far
  pre                 \* pre[w]: the collections when worker w's run began

vars == <<csv, ventas_aggregadas, alertas_stock, estacionalidad,
          pc, acc, idx, response, served, pre>>

Db == [ventas_aggregadas |-> ventas_aggregadas, alertas_stock |-> alertas_stock,
       estacionalidad |-> estacionalidad]

Init ==
  /\ csv \in Batches
  /\ \E prior \in PriorDbs :
       /\ ventas_aggregadas = prior.ventas_aggregadas
       /\ alertas_stock = prior.alertas_stock
       /\ estacionalidad = prior.estacionalidad
       /\ pre = [w \in Workers |-> [db |-> prior, after_ok |-> FALSE]]
  /\ pc = [w \in Workers |-> "idle"]
  /\ acc = [w \in Workers |-> EmptyAcc]
  /\ idx = [w \in Workers |-> 0]
  /\ response = [w \in Workers |-> "none"]
  /\ served = 0

\* ---------------------------------------------------------------- actions
InsertLoops == <<"ins_ventas", "ins_alertas", "ins_estacionalidad">>

Items(a, loop) ==
  IF loop = "ins_ventas" THEN a.ventas_totales
  ELSE IF loop = "ins_alertas" THEN a.stock_actual
  ELSE a.ventas_por_mes

\* The next insert loop, from the n-th on, that has an item to insert; a
\* loop over an empty dict is passed without a database call.
RECURSIVE LoopFrom(_, _)
LoopFrom(a, n) ==
  IF n > Len(InsertLoops) THEN "return"
  ELSE IF Items(a, InsertLoops[n]) # << >> THEN InsertLoops[n]
  ELSE LoopFrom(a, n + 1)

\* After the idx-th insert of the n-th loop: the next item or the next loop.
Advance(w, n) ==
  IF idx[w] < Len(Items(acc[w], InsertLoops[n]))
  THEN /\ idx' = [idx EXCEPT ![w] = @ + 1]
       /\ pc' = pc
  ELSE /\ idx' = [idx EXCEPT ![w] = 1]
       /\ pc' = [pc EXCEPT ![w] = LoopFrom(acc[w], n + 1)]

\* POST /sync arrives: read the file and run the loop.  An exception in the
\* loop is caught and answered with 500 before any database call.
Sync(w) ==
  /\ pc[w] = "idle"
  /\ served < MaxRequests
  /\ served' = served + 1
  /\ pre' = [pre EXCEPT ![w] = [db |-> Db, after_ok |-> response[w] = "ok"]]
  /\ LET a == Aggregate(csv)
     IN IF a.raised
        THEN /\ response' = [response EXCEPT ![w] = "error"]
             /\ UNCHANGED <<pc, acc>>
        ELSE /\ response' = [response EXCEPT ![w] = "none"]
             /\ acc' = [acc EXCEPT ![w] = a]
             /\ pc' = [pc EXCEPT ![w] = "del_ventas"]
  /\ UNCHANGED <<csv, ventas_aggregadas, alertas_stock, estacionalidad, idx>>

DeleteVentas(w) ==
  /\ pc[w] = "del_ventas"
  /\ ventas_aggregadas' = delete_many(ventas_aggregadas)
  /\ pc' = [pc EXCEPT ![w] = "del_alertas"]
  /\ UNCHANGED <<csv, alertas_stock, estacionalidad, acc, idx, response, served, pre>>

DeleteAlertas(w) ==
  /\ pc[w] = "del_alertas"
  /\ alertas_stock' = delete_many(alertas_stock)
  /\ pc' = [pc EXCEPT ![w] = "del_estacionalidad"]
  /\ UNCHANGED <<csv, ventas_aggregadas, estacionalidad, acc, idx, response, served, pre>>

DeleteEstacionalidad(w) ==
  /\ pc[w] = "del_estacionalidad"
  /\ estacionalidad' = delete_many(estacionalidad)
  /\ pc' = [pc EXCEPT ![w] = LoopFrom(acc[w], 1)]
  /\ idx' = [idx EXCEPT ![w] = 1]
  /\ UNCHANGED <<csv, ventas_aggregadas, alertas_stock, acc, response, served, pre>>

InsertVenta(w) ==
  /\ pc[w] = "ins_ventas"
  /\ ventas_aggregadas' =
       insert_one(ventas_aggregadas, VentaDoc(acc[w].ventas_totales[idx[w]]))
  /\ Advance(w, 1)
  /\ UNCHANGED <<csv, alertas_stock, estacionalidad, acc, response, served, pre>>

InsertAlerta(w) ==
  /\ pc[w] = "ins_alertas"
  /\ alertas_stock' =
       insert_one(alertas_stock, AlertaDoc(acc[w].stock_actual[idx[w]]))
  /\ Advance(w, 2)
  /\ UNCHANGED <<csv, ventas_aggregadas, estacionalidad, acc, response, served, pre>>

InsertEstacionalidad(w) ==
  /\ pc[w] = "ins_estacionalidad"
  /\ estacionalidad' =
       insert_one(estacionalidad, EstacionalidadDoc(acc[w].ventas_por_mes[idx[w]]))
  /\ Advance(w, 3)
  /\ UNCHANGED <<csv, ventas_aggregadas, alertas_stock, acc, response, served, pre>>

\* return JSONResponse(... "completada exitosamente"): the locals are dropped.
Return(w) ==
  /\ pc[w] = "return"
  /\ response' = [response EXCEPT ![w] = "ok"]
  /\ pc' = [pc EXCEPT ![w] = "idle"]
  /\ acc' = [acc EXCEPT ![w] = EmptyAcc]
  /\ idx' = [idx EXCEPT ![w] = 0]
  /\ UNCHANGED <<csv, ventas_aggregadas, alertas_stock, estacionalidad, served, pre>>

InPersistence(w) ==
  pc[w] \in {"del_ventas", "del_alertas", "del_estacionalidad",
             "ins_ventas", "ins_alertas", "ins_estacionalidad"}

\* The pending delete_many or insert_one raises (the server is unreachable):
\* the call has no effect, the handler catches the exception and answers 500.
\* Nothing undoes the calls that succeeded before it.
PersistenceError(w) ==
  /\ InPersistence(w)
  /\ response' = [response EXCEPT ![w] = "error"]
  /\ pc' = [pc EXCEPT ![w] = "idle"]
  /\ acc' = [acc EXCEPT ![w] = EmptyAcc]
  /\ idx' = [idx EXCEPT ![w] = 0]
  /\ UNCHANGED <<csv, ventas_aggregadas, alertas_stock, estacionalidad, served, pre>>

Handler(w) ==
  \/ Sync(w)
  \/ DeleteVentas(w)
  \/ DeleteAlertas(w)
  \/ DeleteEstacionalidad(w)
  \/ InsertVenta(w)
  \/ InsertAlerta(w)
  \/ InsertEstacionalidad(w)
  \/ Return(w)
  \/ PersistenceError(w)

\* One request at a time: the single run the pipeline is designed for.
Next == Handler(1)

Spec == Init /\ [][Next]_vars

\* Overlapping requests: the endpoint is a plain def, which the server runs
\* on its thread pool, and the function takes no lock.
NextConc == \E w \in Workers : Handler(w)

SpecConc == Init /\ [][NextConc]_vars

\* ------------------------------------------------- what the claims speak of
\* Worker 1's run has ended with the success answer.
Succeeded == pc[1] = "idle" /\ response[1] = "ok"

\* Worker 1 has answered a request and is not serving another.
Ended == pc[1] = "idle" /\ response[1] # "none"

RECURSIVE SumQty(_, _, _)
\* Sum of cantidad over the rows of df of product p and type t.
SumQty(df, p, t) ==
  IF df = << >> THEN 0
  ELSE SumQty(Tail(df), p, t)
       + (IF Head(df).producto_id = p /\ Head(df).tipo = t THEN Head(df).cantidad ELSE 0)

RECURSIVE SumMonth(_, _, _)
\* Sum of cantidad over the 'salida' rows of product p dated in month m of any year.
SumMonth(df, p, m) ==
  IF df = << >> THEN 0
  ELSE SumMonth(Tail(df), p, m)
       + (IF /\ Head(df).producto_id = p
             /\ Head(df).tipo = "salida"
             /\ Head(df).fecha.month = m
          THEN Head(df).cantidad ELSE 0)

RECURSIVE SumOver(_, _)
\* Sum of f[x] over the finite set S.
SumOver(f, S) ==
  IF S = {} THEN 0
  ELSE LET x == CHOOSE y \in S : TRUE IN f[x] + SumOver(f, S \ {x})

ProductsOf(df, tipos) ==
  {df[i].producto_id : i \in {j \in DOMAIN df : df[j].tipo \in tipos}}

Keys(coll) == {coll[i].producto_id : i \in DOMAIN coll}

OnePerKey(coll) ==
  \A i, j \in DOMAIN coll : coll[i].producto_id = coll[j].producto_id => i = j

\* The text has a date with dashes, a real calendar day and a time part.
Parseable(f) ==
  /\ f.sep = "-"
  /\ f.time \in {"00:00:00", "0:0:0"}
  /\ f.month >= 1 /\ f.month <= 12
  /\ f.day >= 1 /\ f.day <= DaysIn(f.year, f.month)

\* The text is exactly YYYY-MM-DD HH:MM:SS: parseable and zero-padded.
MatchesPattern(f) == Parseable(f) /\ f.padded /\ f.time = "00:00:00"

BadText(row) == row.fecha.isstr /\ ~MatchesPattern(row.fecha)

UnparseableText(row) == row.fecha.isstr /\ ~Parseable(row.fecha)

\* Worker 1 has not got past the loop and the collections are as its last
\* request found them.
AbortedUntouched ==
  /\ pc[1] = "idle"
  /\ response[1] # "ok"
  /\ Db = pre[1].db

\* ------------------------------------------------------------------ claims

\* C1: after a successful run every alertas_stock document holds the sum of
\* the product's 'entrada' quantities minus the sum of its 'salida'
\* quantities, negative values included.
C1_StockIsNetMovement ==
  Succeeded =>
    \A i \in DOMAIN alertas_stock :
      alertas_stock[i].stock_actual =
        SumQty(csv, alertas_stock[i].producto_id, "entrada")
        - SumQty(csv, alertas_stock[i].producto_id, "salida")

\* A successful run stored a negative stock for a product that has inbound
\* and outbound rows.
C1_Witness ==
  /\ Succeeded
  /\ \E i \in DOMAIN alertas_stock :
       /\ alertas_stock[i].stock_actual < 0
       /\ SumQty(csv, alertas_stock[i].producto_id, "entrada") > 0

\* C2: after a successful run every ventas_aggregadas document holds the sum
\* of the product's 'salida' quantities, and the documents' totals add up to
\* the sum of cantidad over all 'salida' rows; 'entrada' rows add nothing.
C2_TotalIsOutboundSum ==
  Succeeded =>
    /\ \A i \in DOMAIN ventas_aggregadas :
         ventas_aggregadas[i].total_ventas =
           SumQty(csv, ventas_aggregadas[i].producto_id, "salida")
    /\ SumOver([i \in DOMAIN ventas_aggregadas |-> ventas_aggregadas[i].total_ventas],
               DOMAIN ventas_aggregadas)
       = SumOver([p \in Productos |-> SumQty(csv, p, "salida")], Productos)

\* A successful run on a file with two outbound rows of one product.
C2_Witness ==
  /\ Succeeded
  /\ \E i \in DOMAIN ventas_aggregadas :
       ventas_aggregadas[i].total_ventas = 50
  /\ Len(csv) = 2 /\ csv[1].tipo = "salida" /\ csv[2].tipo = "salida"

\* C3: in every state every alertas_stock document has the estado of its own
\* stock_actual (below 10 CRITICO, from 10 and below 50 BAJO, from 50 NORMAL),
\* and after a successful run that stock is the final one of the pass.
C3_EstadoOfFinalStock ==
  /\ \A i \in DOMAIN alertas_stock :
       LET stock == alertas_stock[i].stock_actual
           estado == alertas_stock[i].estado
       IN /\ stock < 10 => estado = "CRITICO"
          /\ (10 <= stock /\ stock < 50) => estado = "BAJO"
          /\ stock >= 50 => estado = "NORMAL"
  /\ Succeeded =>
       \A i \in DOMAIN alertas_stock :
         LET final == SumQty(csv, alertas_stock[i].producto_id, "entrada")
                      - SumQty(csv, alertas_stock[i].producto_id, "salida")
         IN alertas_stock[i].estado =
              (IF final < 10 THEN "CRITICO" ELSE IF final < 50 THEN "BAJO" ELSE "NORMAL")

\* A successful run stored a stock of exactly 50 as NORMAL, reached through
\* a running value of 10 or 40.
C3_Witness ==
  /\ Succeeded
  /\ \E i \in DOMAIN alertas_stock :
       alertas_stock[i].stock_actual = 50 /\ alertas_stock[i].estado = "NORMAL"

\* C4: after a successful run every product with a 'salida' row has an
\* estacionalidad document whose bucket of each month is the sum of the
\* product's 'salida' quantities of that month in any year (no bucket counts
\* as 0), and the twelve buckets add up to the product's total_ventas.
C4_MonthlyBuckets ==
  Succeeded =>
    \A p \in ProductsOf(csv, {"salida"}) :
      \E i \in DOMAIN estacionalidad :
        /\ estacionalidad[i].producto_id = p
        /\ \A m \in 1..12 :
             dict_get(estacionalidad[i].ventas_por_mes, MonthNames[m], 0)
               = SumMonth(csv, p, m)
        /\ \E j \in DOMAIN ventas_aggregadas :
             /\ ventas_aggregadas[j].producto_id = p
             /\ ventas_aggregadas[j].total_ventas =
                  SumOver([m \in 1..12 |->
                            dict_get(estacionalidad[i].ventas_por_mes, MonthNames[m], 0)],
                          1..12)

\* A successful run on outbound rows of one product in January of two years.
C4_Witness ==
  /\ Succeeded
  /\ \E a, b \in DOMAIN csv :
       /\ csv[a].tipo = "salida" /\ csv[b].tipo = "salida"
       /\ csv[a].producto_id = csv[b].producto_id
       /\ csv[a].fecha.month = csv[b].fecha.month
       /\ csv[a].fecha.year # csv[b].fecha.year
  /\ \E i \in DOMAIN estacionalidad :
       dict_get(estacionalidad[i].ventas_por_mes, "january", 0) = 19

\* C5: after a successful run alertas_stock has exactly one document for each
\* product with an 'entrada' or 'salida' row, and ventas_aggregadas and
\* estacionalidad each have exactly one for each product with a 'salida' row.
C5_ExactKeySets ==
  Succeeded =>
    /\ OnePerKey(alertas_stock) /\ OnePerKey(ventas_aggregadas) /\ OnePerKey(estacionalidad)
    /\ Keys(alertas_stock) = ProductsOf(csv, {"entrada", "salida"})
    /\ Keys(ventas_aggregadas) = ProductsOf(csv, {"salida"})
    /\ Keys(estacionalidad) = ProductsOf(csv, {"salida"})

\* A successful run where one product has only inbound rows and another has
\* an outbound row.
C5_Witness ==
  /\ Succeeded
  /\ \E p \in Keys(alertas_stock) :
       p \notin Keys(ventas_aggregadas) /\ p \notin Keys(estacionalidad)
  /\ Keys(ventas_aggregadas) # {}

\* C6 as stated: a row of any type with a malformed text fecha makes the run
\* abort and leaves the three collections as they were.
C6_AnyBadTextAborts ==
  (\E i \in DOMAIN csv : BadText(csv[i])) => AbortedUntouched

\* C6 amended: a 'salida' row, at any position, with a text fecha that
\* strptime does not accept for %Y-%m-%d %H:%M:%S makes the run abort before
\* any delete or insert and leaves the three collections as they were.
C6_BadOutboundTextAborts ==
  (\E i \in DOMAIN csv : csv[i].tipo = "salida" /\ UnparseableText(csv[i]))
    => AbortedUntouched

\* A run answered 500 on a file whose second row, after a valid inbound row,
\* is an outbound row with a malformed date, the database not being empty.
C6_Witness ==
  /\ Len(csv) = 2
  /\ csv[1].tipo = "entrada" /\ ~BadText(csv[1])
  /\ csv[2].tipo = "salida" /\ UnparseableText(csv[2])
  /\ response[1] = "error"
  /\ alertas_stock # << >>

\* C7 as stated: a row whose tipo is neither 'entrada' nor 'salida' makes the
\* run abort: no success answer, no delete, no insert.
C7_UnknownTipoAborts ==
  (\E i \in DOMAIN csv : csv[i].tipo \notin {"entrada", "salida"}) =>
    /\ \A w \in Workers : ~InPersistence(w)
    /\ response[1] # "ok"

\* What one run on the current file writes when nothing fails.
Derived == Materialize(Aggregate(csv))

C9_ReplaceAllIdempotent ==
  Succeeded =>
    /\ Db = Derived
    /\ \A i \in DOMAIN alertas_stock : alertas_stock[i].producto_id \in Productos
    /\ pre[1].after_ok => Db = pre[1].db

\* A second successful run in a row, with documents stored.
C9_Witness ==
  /\ Succeeded
  /\ pre[1].after_ok
  /\ ventas_aggregadas # << >>

\* C10 as stated: no two requests are in their deletes and inserts at the
\* same time, and once all requests have ended with success the collections
\* are those of one sequential run.
C10_OnePersistenceAtATime ==
  /\ \A v, w \in Workers : (InPersistence(v) /\ InPersistence(w)) => v = w
  /\ (\A w \in Workers : pc[w] = "idle" /\ response[w] = "ok") => Db = Derived

\* The second half of C10 alone: the outcome of overlapping successful runs.
OverlapOutcome ==
  (\A w \in Workers : pc[w] = "idle" /\ response[w] = "ok") => Db = Derived

====
